---------------------------- MODULE Spec2Model ----------------------------
(***************************************************************************)
(* A state-machine model of the mapcode command line utility               *)
(* (utility/mapcode.cpp): the decode and encode commands, the three        *)
(* test-set generators (boundaries, grid, random) and the two self checks. *)
(*                                                                         *)
(* Conventions of the model:                                               *)
(*  - C strings are sequences of one-character strings, so that strcmp,    *)
(*    strstr and strlen are computed on them as the C library does;        *)
(*  - latitudes and longitudes are integers in microdegrees (1e-6 degree), *)
(*    so 0.001 degree is 1000 and the boundary epsilon 0.000001 is 1;      *)
(*  - the codec (mapcodelib) is an environment: every call to encode or    *)
(*    decode returns a value drawn nondeterministically from a small set;  *)
(*  - stdout is abstracted to the shape of what was written (header count, *)
(*    alias lines since the header and in all, closed records), of stderr  *)
(*    only the totals the statistics print are kept, and of the statistics *)
(*    the counters are kept but not the coordinates of the point with the  *)
(*    most results, which are only ever printed.                           *)
(***************************************************************************)
EXTENDS Integers, Sequences, FiniteSets, TLC

(***************************************************************************)
(* Bounds of the model.                                                    *)
(***************************************************************************)
\* Largest number of (mapcode, territory) pairs one encode call returns.
MaxResults == 2

\* Number of records of the boundaries table (some thousands in mapcodelib),
\* scaled down.
NR_BOUNDARY_RECS == 2

(***************************************************************************)
(* Program constants.                                                      *)
(***************************************************************************)
NORMAL_ERROR == 1
INTERNAL_ERROR == 2

\* static const double DELTA = 0.001, in microdegrees.
DELTA == 1000

\* One degree, in microdegrees.
Deg == 1000000

\* RAND_MAX of the C library, scaled down so that rand()/RAND_MAX takes the
\* values 0, 1/4, 1/2, 3/4, 1.
RAND_MAX == 4

(***************************************************************************)
(* C strings.                                                              *)
(***************************************************************************)
S_d == <<"-", "d">>
S_decode == <<"-", "-", "d", "e", "c", "o", "d", "e">>
S_e == <<"-", "e">>
S_encode == <<"-", "-", "e", "n", "c", "o", "d", "e">>
S_b == <<"-", "b">>
S_boundaries == <<"-", "-", "b", "o", "u", "n", "d", "a", "r", "i", "e", "s">>
S_g == <<"-", "g">>
S_grid == <<"-", "-", "g", "r", "i", "d">>
S_r == <<"-", "r">>
S_random == <<"-", "-", "r", "a", "n", "d", "o", "m">>
S_XYZ == <<"X", "Y", "Z">>
S_dash == <<"-">>
S_debug == <<"d", "e", "b", "u", "g">>
S_mapcode == <<"m", "a", "p", "c", "o", "d", "e">>
S_mapcode_debug == S_mapcode \o <<"_">> \o S_debug
S_AAA == <<"A", "A", "A">>
S_IN == <<"I", "N">>
S_US_IN == <<"U", "S", "-", "I", "N">>

Digit(n) == <<"0", "1", "2", "3", "4", "5", "6", "7", "8", "9">>[n + 1]

\* strstr(haystack, needle): the index of the first occurrence, 0 for NULL.
StrStr(haystack, needle) ==
    LET starts == { p \in 1..(Len(haystack) - Len(needle) + 1) :
                      SubSeq(haystack, p, p + Len(needle) - 1) = needle }
    IN  IF starts = {} THEN 0
        ELSE CHOOSE p \in starts : \A q \in starts : p <= q

\* The string a char* at index p of s points to (the tail of s from p on).
Tail_From(s, p) == SubSeq(s, p, Len(s))

Abs(x) == IF x >= 0 THEN x ELSE -x


(***************************************************************************)
(* The codec (mapcodelib), an environment of the utility.                  *)
(***************************************************************************)
\* Mapcodes the command line or the codec may hold: one plain, one with a
\* two-letter high-precision suffix.
M_plain == <<"4", "J", ".", "Q">>
M_hp == <<"4", "J", ".", "Q", "-", "K", "3">>

\* The same high-precision mapcode written with its territory in front, as
\* the decoder accepts it: "US-IN 4J.Q-K3".
M_full == <<"U", "S", "-", "I", "N", " ">> \o M_hp

\* One entry of the results array: results[2i] and results[2i + 1].
Alias(mapcode, territory) == [mapcode |-> mapcode, territory |-> territory]

\* The entries the codec may return: a mapcode with a minimal territory, and
\* with the same territory in full.
Aliases == {Alias(M_plain, S_IN), Alias(M_plain, S_US_IN)}

RECURSIVE SeqsUpTo(_, _)
SeqsUpTo(S, n) ==
    IF n = 0 THEN {<<>>}
    ELSE LET shorter == SeqsUpTo(S, n - 1)
         IN  shorter \cup { Append(r, a) : r \in { q \in shorter : Len(q) = n - 1 }, a \in S }

\* encodeLatLonToMapcodes_Deprecated: fills results with any list of at most
\* MaxResults entries and returns its length; an empty list is "cannot encode".
EncodeResults == SeqsUpTo(Aliases, MaxResults)

\* decodeMapcodeToLatLon: an error, or a point. The points lie at and just
\* around 0.001 degree from (90, 180), on both sides of the 180 meridian, and
\* there is one more at (-30, 90).
DecodeLats == {90 * Deg, 90 * Deg - DELTA - 1}
DecodeLons == {180 * Deg - DELTA, 180 * Deg - DELTA - 1,
               -180 * Deg + DELTA - 1, -180 * Deg + DELTA + 1}
DecodeOutcomes ==
    {[err |-> 1, lat |-> 0, lon |-> 0], [err |-> 0, lat |-> -30 * Deg, lon |-> 90 * Deg]}
        \cup [err : {0}, lat : DecodeLats, lon : DecodeLons]

\* boundaries(i): record 0 is the south-western quarter of the world, the
\* others are small boxes at the origin (minx, maxx, miny, maxy in
\* microdegrees, as in mminforec).
boundaries(i) ==
    IF i = 0
    THEN [minx |-> -180 * Deg, maxx |-> 0, miny |-> -90 * Deg, maxy |-> 0]
    ELSE [minx |-> 0, maxx |-> 2 * i * Deg, miny |-> 0, maxy |-> 2 * i * Deg]

(***************************************************************************)
(* The C library's pseudo-random generator, scaled down.                   *)
(***************************************************************************)
\* srand(seed): the state becomes the seed.
Srand(seed) == seed % (RAND_MAX + 1)

\* rand(): the next state, which is also the value returned (0..RAND_MAX).
Rand(state) == (3 * state + 1) % (RAND_MAX + 1)

\* time(0) at the moment of seeding.
ClockValues == {3, 4}

(***************************************************************************)
(* unitToLatLonDeg, lines 161-180.                                         *)
(***************************************************************************)
\* radToDeg(asin(zn / zd)) in microdegrees, for -1 <= zn / zd <= 1: exact at
\* 0, +-1/2 and +-1 and linear in between.
AsinDeg(zn, zd) ==
    LET a == Abs(zn)
        m == IF 2 * a <= zd THEN (60 * Deg * a) \div zd
             ELSE (120 * Deg * a) \div zd - 30 * Deg
    IN  IF zn >= 0 THEN m ELSE -m

\* unit1 = n1 / d, unit2 = n2 / d. z = cos(theta1) = 1 - 2 unit2, lat = asin(z);
\* (x, y) = sin(theta1) (sin(theta0), cos(theta0)), so lon = atan2(y, x) is
\* 90 - 360 unit1 degrees brought into (-180, 180], and 0 where sin(theta1) = 0.
\* my_isnan is the constant false: nothing is clamped.
unitToLatLonDeg(n1, n2, d) ==
    LET zn == d - 2 * n2
        phi == 90 * Deg - (360 * Deg * n1) \div d
        lonDeg == IF Abs(zn) = d THEN 0
                  ELSE IF phi <= -180 * Deg THEN phi + 360 * Deg ELSE phi
    IN  [lat |-> AsinDeg(zn, d), lon |-> lonDeg]

\* my_round(sqrt((double) n)) = floor(sqrt(n) + 0.5), line 648.
Line(n) == CHOOSE r \in 0..n : r * r - r < n /\ n <= r * r + r

(***************************************************************************)
(* generateAndOutputMapcodes: the wraparound of lines 284-295.             *)
(***************************************************************************)
\* A faulty variant: only longitudes that are too large are wrapped.
RECURSIVE NormLon_NoLowerLoop(_)
NormLon_NoLowerLoop(l) == IF l > 180 * Deg THEN NormLon_NoLowerLoop(l - 360 * Deg) ELSE l

RECURSIVE NormLon(_)
NormLon(l) ==
    IF l > 180 * Deg THEN NormLon(l - 360 * Deg)
    ELSE IF l < -180 * Deg THEN NormLon(l + 360 * Deg)
    ELSE l

RECURSIVE NormLat(_)
NormLat(l) ==
    IF l > 90 * Deg THEN NormLat(l - 180 * Deg)
    ELSE IF l < -90 * Deg THEN NormLat(l + 180 * Deg)
    ELSE l

(***************************************************************************)
(* The 13 probe points of one boundary record, lines 567-595, in call      *)
(* order (k = 0..12).                                                      *)
(***************************************************************************)
\* A faulty variant: the first two corners are probed in the other order.
BoundaryProbes_Swapped(mm) ==
    LET minLon == mm.minx  maxLon == mm.maxx
        minLat == mm.miny  maxLat == mm.maxy
        d == 1
    IN  << [lat |-> (maxLat - minLat) \div 2, lon |-> (maxLon - minLon) \div 2],
           [lat |-> minLat, lon |-> maxLon],
           [lat |-> minLat, lon |-> minLon],
           [lat |-> maxLat, lon |-> minLon],
           [lat |-> maxLat, lon |-> maxLon],
           [lat |-> minLat + d, lon |-> minLon + d],
           [lat |-> minLat + d, lon |-> maxLon - d],
           [lat |-> maxLat - d, lon |-> minLon + d],
           [lat |-> maxLat - d, lon |-> maxLon - d],
           [lat |-> minLat - d, lon |-> minLon - d],
           [lat |-> minLat - d, lon |-> maxLon + d],
           [lat |-> maxLat + d, lon |-> minLon - d],
           [lat |-> maxLat + d, lon |-> maxLon + d] >>

BoundaryProbes(mm) ==
    LET minLon == mm.minx  maxLon == mm.maxx
        minLat == mm.miny  maxLat == mm.maxy
        d == 1
    IN  << [lat |-> (maxLat - minLat) \div 2, lon |-> (maxLon - minLon) \div 2],
           [lat |-> minLat, lon |-> minLon],
           [lat |-> minLat, lon |-> maxLon],
           [lat |-> maxLat, lon |-> minLon],
           [lat |-> maxLat, lon |-> maxLon],
           [lat |-> minLat + d, lon |-> minLon + d],
           [lat |-> minLat + d, lon |-> maxLon - d],
           [lat |-> maxLat - d, lon |-> minLon + d],
           [lat |-> maxLat - d, lon |-> maxLon - d],
           [lat |-> minLat - d, lon |-> minLon - d],
           [lat |-> minLat - d, lon |-> maxLon + d],
           [lat |-> maxLat + d, lon |-> minLon - d],
           [lat |-> maxLat + d, lon |-> maxLon + d] >>

(***************************************************************************)
(* selfCheckLatLonToMapcode, lines 199-242.                                *)
(***************************************************************************)
LimitLat(lat) == IF lat < -90 * Deg THEN -90 * Deg ELSE IF lat > 90 * Deg THEN 90 * Deg ELSE lat
LimitLon(lon) == IF lon < -180 * Deg THEN -180 * Deg ELSE IF lon > 180 * Deg THEN 180 * Deg ELSE lon

\* One pass of the loop body, lines 221-230: "found", "next" (found stays 0)
\* or "crash". strstr gives NULL for a territory without a dash, and then,
\* unless the first strcmp already matched, strcmp(territory, NULL) is
\* undefined: the process may fault, or the call may return zero or nonzero.
EntryOutcomes(territory, mapcode, e) ==
    LET p == StrStr(e.territory, S_dash)
    IN  IF territory = e.territory
        THEN {IF mapcode = e.mapcode THEN "found" ELSE "next"}
        ELSE IF p # 0
        THEN {IF territory = Tail_From(e.territory, p + 1) /\ mapcode = e.mapcode
              THEN "found" ELSE "next"}
        ELSE {"crash", "next"} \cup (IF mapcode = e.mapcode THEN {"found"} ELSE {})

\* Lines 223-229 for one entry: foundTerritoryMin is NULL (the territory
\* returned has no dash) and the first strcmp of line 228 is nonzero, so that
\* the || goes on to evaluate strcmp(territory, foundTerritoryMin).
ComparesWithNull(territory, e) ==
    territory # e.territory /\ StrStr(e.territory, S_dash) = 0

\* Whether the loop of lines 216-231, from entry i on, reaches an entry for
\* which line 229 compares with NULL: the entries before the first such one
\* are passed over deterministically.
RECURSIVE NullCompared(_, _, _, _)
NullCompared(res, territory, mapcode, i) ==
    /\ i <= Len(res)
    /\ \/ ComparesWithNull(territory, res[i])
       \/ /\ EntryOutcomes(territory, mapcode, res[i]) = {"next"}
          /\ NullCompared(res, territory, mapcode, i + 1)

\* The loop of lines 216-231 from entry i on: the outcomes it can end with.
RECURSIVE ScanOutcomes(_, _, _, _)
ScanOutcomes(res, territory, mapcode, i) ==
    IF i > Len(res) THEN {"notfound"}
    ELSE LET o == EntryOutcomes(territory, mapcode, res[i])
         IN  (o \cap {"found", "crash"})
                 \cup (IF "next" \in o THEN ScanOutcomes(res, territory, mapcode, i + 1)
                       ELSE {})

\* The outcomes of the whole check for one re-encode result: "ok", "fail"
\* (an error was printed) or "crash".
EncodeCheckOutcomes(res, territory, mapcode) ==
    IF Len(res) <= 0 THEN {"fail"}
    ELSE { IF o = "found" THEN "ok" ELSE IF o = "notfound" THEN "fail" ELSE "crash" :
             o \in ScanOutcomes(res, territory, mapcode, 1) }

(***************************************************************************)
(* selfCheckMapcodeToLatLon, lines 248-277.                                *)
(***************************************************************************)
DeltaLat(foundLat, lat) ==
    IF (foundLat - lat) >= 0 THEN (foundLat - lat) ELSE -(foundLat - lat)

\* A faulty variant: a difference of more than 180 degrees is not folded.
DeltaLon_NoFold(foundLon, lon) ==
    IF (foundLon - lon) > 0 THEN (foundLon - lon) ELSE -(foundLon - lon)

DeltaLon(foundLon, lon) ==
    LET raw == IF (foundLon - lon) > 0 THEN (foundLon - lon) ELSE -(foundLon - lon)
    IN  IF raw > 180 * Deg THEN 360 * Deg - raw ELSE raw

DecodeCheckOutcome(d, lat, lon) ==
    IF d.err # 0 THEN "fail"
    ELSE IF DeltaLat(d.lat, lat) > DELTA \/ DeltaLon(d.lon, lon) > DELTA THEN "fail"
    ELSE "ok"


(***************************************************************************)
(* Command lines.                                                          *)
(***************************************************************************)
\* Largest <nrOfPoints> given to -g and -r.
MaxPoints == 4

DecodeCmds == {S_d, S_decode}

\* Lines 453-462: "--encode5" is compared twice and "--encode6" never.
EncodeCmds ==
    {S_e, S_encode} \cup { S_e \o <<Digit(n)>> : n \in 0..8 }
        \cup { S_encode \o <<Digit(n)>> : n \in {0, 1, 2, 3, 4, 5, 5, 7, 8} }

\* Lines 537-538.
BoundaryCmds == {S_b, S_b \o S_XYZ, S_boundaries, S_boundaries \o S_XYZ}

\* Lines 603-606.
GridRandomCmds ==
    {S_g, S_g \o S_XYZ, S_grid, S_grid \o S_XYZ,
     S_r, S_r \o S_XYZ, S_random, S_random \o S_XYZ}

\* Line 631: int random = (strcmp(cmd, "-r") == 0) || (strcmp(cmd, "--random") == 0).
IsRandomCmd(c) == c = S_r \/ c = S_random

\* Lines 556 and 641: useXYZ = (strstr(cmd, "XYZ") != 0).
UseXYZ(c) == StrStr(c, S_XYZ) # 0

\* Lines 480-506: the first n in 1..8 with "-e<n>" or "--encode<n>" in cmd, else 0.
EncodeExtraDigits(c) ==
    LET hits == { n \in 1..8 : StrStr(c, S_e \o <<Digit(n)>>) # 0
                                 \/ StrStr(c, S_encode \o <<Digit(n)>>) # 0 }
    IN  IF hits = {} THEN 0 ELSE CHOOSE n \in hits : \A m \in hits : n <= m

\* Lines 444-448: the number of characters after the first dash of the mapcode.
DecodeExtraDigits(mapcode) ==
    LET suffix == StrStr(mapcode, S_dash)
    IN  IF suffix # 0 THEN Len(Tail_From(mapcode, suffix)) - 1 ELSE 0

\* A command line: argv[0], argv[1] (<<>> when absent), then the numeric
\* arguments (read with atof or atoi) followed by the string arguments.
CmdLine(app, c, nums, strs) == [app |-> app, cmd |-> c, nums |-> nums, strs |-> strs]

Invocations ==
    { CmdLine(S_mapcode, <<>>, <<>>, <<>>),
      CmdLine(S_mapcode, <<"-", "x">>, <<>>, <<>>),
      \* decode
      CmdLine(S_mapcode, S_d, <<>>, <<S_IN, M_plain, M_hp>>),
      CmdLine(S_mapcode_debug, S_decode, <<>>, <<S_IN, M_hp, M_plain>>),
      CmdLine(S_mapcode_debug, S_d, <<>>, <<S_AAA, M_plain>>),
      CmdLine(S_mapcode_debug, S_d, <<>>, <<S_IN, M_full>>),
      CmdLine(S_mapcode, S_d, <<>>, <<S_AAA>>),
      \* encode
      CmdLine(S_mapcode, S_e, <<90 * Deg, 180 * Deg>>, <<>>),
      CmdLine(S_mapcode_debug, S_encode \o <<Digit(8)>>, <<90 * Deg, -180 * Deg>>, <<S_AAA>>),
      CmdLine(S_mapcode_debug, S_e \o <<Digit(2)>>, <<90 * Deg - 1, 180 * Deg - 1>>, <<>>),
      CmdLine(S_mapcode, S_encode \o <<Digit(6)>>, <<0, 0>>, <<>>),
      CmdLine(S_mapcode, S_e, <<0>>, <<>>),
      \* boundaries
      CmdLine(S_mapcode, S_b, <<>>, <<>>),
      CmdLine(S_mapcode_debug, S_b \o S_XYZ, <<8>>, <<>>),
      CmdLine(S_mapcode_debug, S_boundaries \o S_XYZ, <<0>>, <<>>),
      CmdLine(S_mapcode, S_boundaries, <<9>>, <<>>),
      CmdLine(S_mapcode, S_b, <<0, 0>>, <<>>),
      \* grid
      CmdLine(S_mapcode, S_g, <<MaxPoints>>, <<>>),
      CmdLine(S_mapcode_debug, S_g \o S_XYZ, <<MaxPoints - 1, 2>>, <<>>),
      CmdLine(S_mapcode, S_grid \o S_XYZ, <<2, 9>>, <<>>),
      CmdLine(S_mapcode, S_grid, <<0>>, <<>>),
      CmdLine(S_mapcode, S_g, <<>>, <<>>),
      \* random
      CmdLine(S_mapcode, S_r, <<MaxPoints - 1, 0, 0>>, <<>>),
      CmdLine(S_mapcode, S_r, <<MaxPoints - 1, 0, 2>>, <<>>),
      CmdLine(S_mapcode, S_random, <<2>>, <<>>),
      CmdLine(S_mapcode, S_r \o S_XYZ, <<MaxPoints - 1, 0, 1>>, <<>>),
      CmdLine(S_mapcode_debug, S_random \o S_XYZ, <<2>>, <<>>),
      CmdLine(S_mapcode_debug, S_random, <<2, 8, 1>>, <<>>) }

(***************************************************************************)
(* State.                                                                  *)
(***************************************************************************)
VARIABLES
    argv,                   \* the command line
    pc,                     \* where main is: "start", "decode", "encode",
                            \* "boundary", "grid", "alias", "aliasdec",
                            \* "genend", "done" (exited), "crashed" (faulted)
    exitStatus,             \* the status the process ended with, once pc = "done"
    selfCheckEnabled,       \* static int selfCheckEnabled
    extraDigits, useXYZ, random,
    i,                      \* the loop index of main: argv index, record or point
    k,                      \* boundaries: which of the 13 calls of the record (0..12)
    gridX, gridY, line,
    unit,                   \* unit1 = n1 / d and unit2 = n2 / d of the current point
    rngState,               \* the state of the C library's generator
    seedSource,             \* "none", "arg" (srand(seed)) or "clock" (srand(time(0)))
    totalNrOfPoints, totalNrOfResults, largestNrOfResults,
    rawPoint,               \* lat, lon as passed to generateAndOutputMapcodes
    lat, lon,               \* the current point (after the wraparound, if any)
    results,                \* the results array of the current encode
    j,                      \* the alias loop index
    chk,                    \* the self check the last step made, if it made one:
                            \* its inputs and outcome, and whether it called
                            \* strcmp with a NULL argument
    out,                    \* what stdout holds
    submitted,              \* calls of generateAndOutputMapcodes so far
    nrEmpty,                \* those of them for which encode returned nothing
    decoded,                \* decode mode: mapcodes handed to the decoder so far
    encCall,                \* the arguments of the last call of encode, if one was made
    summary                 \* what outputStatistics printed, <<>> before

vars == <<argv, pc, exitStatus, selfCheckEnabled, extraDigits, useXYZ, random, i, k,
          gridX, gridY, line, unit, rngState, seedSource,
          totalNrOfPoints, totalNrOfResults, largestNrOfResults,
          rawPoint, lat, lon, results, j, chk, out, submitted, nrEmpty, decoded,
          encCall, summary>>

optVars == <<extraDigits, useXYZ, random>>
gridVars == <<gridX, gridY, line, unit>>
rngVars == <<rngState, seedSource>>
statVars == <<totalNrOfPoints, totalNrOfResults, largestNrOfResults>>
pointVars == <<rawPoint, lat, lon, results, j>>
countVars == <<submitted, nrEmpty, decoded>>

argc == 1 + (IF argv.cmd = <<>> THEN 0 ELSE 1) + Len(argv.nums) + Len(argv.strs)

NoCheck ==
    [kind |-> "none", outcome |-> "none", territory |-> <<>>, mapcode |-> <<>>,
     lat |-> 0, lon |-> 0, results |-> <<>>, err |-> 0, foundLat |-> 0, foundLon |-> 0,
     nullCmp |-> FALSE]

Init ==
    /\ argv \in Invocations
    /\ pc = "start"
    /\ exitStatus = 0
    /\ selfCheckEnabled = FALSE
    /\ extraDigits = 0 /\ useXYZ = FALSE /\ random = FALSE
    /\ i = 0 /\ k = 0
    /\ gridX = 0 /\ gridY = 0 /\ line = 0
    /\ unit = [n1 |-> 0, n2 |-> 0, d |-> 1]
    /\ rngState = 1 /\ seedSource = "none"
    /\ totalNrOfPoints = 0 /\ totalNrOfResults = 0 /\ largestNrOfResults = 0
    /\ rawPoint = [lat |-> 0, lon |-> 0]
    /\ lat = 0 /\ lon = 0
    /\ results = <<>> /\ j = 0
    /\ chk = NoCheck
    /\ out = [open |-> FALSE, hdr |-> 0, xyz |-> FALSE, lines |-> 0,
              headers |-> 0, records |-> 0, plain |-> 0, aliases |-> 0]
    /\ submitted = 0 /\ nrEmpty = 0 /\ decoded = 0
    /\ encCall = [made |-> FALSE, lat |-> 0, lon |-> 0, extraDigits |-> 0]
    /\ summary = <<>>


(***************************************************************************)
(* Steps shared by the commands.                                           *)
(***************************************************************************)
\* exit(status), or return status from main.
Exit(status) == pc' = "done" /\ exitStatus' = status

\* Line 399: selfCheckEnabled = (strstr(appName, "debug") != 0).
SetSelfCheck == selfCheckEnabled' = (StrStr(argv.app, S_debug) # 0)

\* A faulty variant: a failed self check returns to its caller.
SelfCheckExits_Never(outcome, enabled) == FALSE

\* "if (selfCheckEnabled) exit(INTERNAL_ERROR);" after a failure was printed,
\* lines 210-212, 237-239, 257-259 and 272-274.
SelfCheckExits(outcome, enabled) == outcome = "fail" /\ enabled

EncCall(la, lo, digits) == [made |-> TRUE, lat |-> la, lon |-> lo, extraDigits |-> digits]

EncCheck(o, territory, mapcode, la, lo, res) ==
    [kind |-> "enc", outcome |-> o, territory |-> territory, mapcode |-> mapcode,
     lat |-> la, lon |-> lo, results |-> res, err |-> 0, foundLat |-> 0, foundLon |-> 0,
     nullCmp |-> NullCompared(res, territory, mapcode, 1)]

DecCheck(o, territory, mapcode, la, lo, d) ==
    [kind |-> "dec", outcome |-> o, territory |-> territory, mapcode |-> mapcode,
     lat |-> la, lon |-> lo, results |-> <<>>, err |-> d.err,
     foundLat |-> d.lat, foundLon |-> d.lon, nullCmp |-> FALSE]

(***************************************************************************)
(* main: no command, or none that is known (lines 403-406, 681-688).       *)
(***************************************************************************)
Usage ==
    /\ pc = "start"
    /\ argc < 2 \/ argv.cmd \notin (DecodeCmds \cup EncodeCmds \cup BoundaryCmds
                                       \cup GridRandomCmds)
    /\ SetSelfCheck
    /\ Exit(NORMAL_ERROR)
    /\ UNCHANGED <<argv, optVars, i, k, gridVars, rngVars, statVars, pointVars, chk,
                   out, countVars, encCall, summary>>

(***************************************************************************)
(* main: decode, lines 410-452.                                            *)
(***************************************************************************)
DecodeBegin ==
    /\ pc = "start"
    /\ argc >= 2 /\ argv.cmd \in DecodeCmds
    /\ SetSelfCheck
    /\ IF argc < 4
       THEN Exit(NORMAL_ERROR) /\ i' = i
       ELSE pc' = "decode" /\ i' = 3 /\ exitStatus' = exitStatus
    /\ UNCHANGED <<argv, optVars, k, gridVars, rngVars, statVars, pointVars, chk,
                   out, countVars, encCall, summary>>

\* ++i, and return 0 after the last mapcode.
DecodeAdvance ==
    /\ i' = i + 1
    /\ IF i + 1 < argc THEN pc' = pc /\ exitStatus' = exitStatus ELSE Exit(0)

\* A faulty variant: a mapcode that cannot be decoded is skipped.
AfterDecodeError_Continue == DecodeAdvance

\* Lines 434-437: the error was printed; return NORMAL_ERROR.
AfterDecodeError == Exit(NORMAL_ERROR) /\ i' = i

\* One pass of the loop of lines 429-451.
DecodeNext ==
    /\ pc = "decode"
    /\ LET defaultTerritory == argv.strs[1]
           mapcode == argv.strs[i - 1]
       IN  \E d \in DecodeOutcomes :
             /\ decoded' = decoded + 1
             /\ IF d.err # 0
                THEN /\ AfterDecodeError
                     /\ chk' = NoCheck
                     /\ UNCHANGED <<lat, lon, out, extraDigits, encCall>>
                ELSE /\ lat' = d.lat /\ lon' = d.lon
                     /\ out' = [out EXCEPT !.plain = @ + 1]
                     /\ IF selfCheckEnabled
                        THEN /\ extraDigits' = DecodeExtraDigits(mapcode)
                             /\ encCall' = EncCall(LimitLat(d.lat), LimitLon(d.lon),
                                                   DecodeExtraDigits(mapcode))
                             /\ \E res \in EncodeResults :
                                  \E o \in EncodeCheckOutcomes(res, defaultTerritory, mapcode) :
                                    /\ chk' = EncCheck(o, defaultTerritory, mapcode,
                                                       d.lat, d.lon, res)
                                    /\ IF o = "crash"
                                       THEN pc' = "crashed" /\ UNCHANGED <<exitStatus, i>>
                                       ELSE IF SelfCheckExits(o, selfCheckEnabled)
                                       THEN Exit(INTERNAL_ERROR) /\ i' = i
                                       ELSE DecodeAdvance
                        ELSE /\ chk' = NoCheck
                             /\ UNCHANGED <<extraDigits, encCall>>
                             /\ DecodeAdvance
    /\ UNCHANGED <<argv, selfCheckEnabled, useXYZ, random, k, gridVars, rngVars,
                   statVars, rawPoint, results, j, submitted, nrEmpty, summary>>

(***************************************************************************)
(* main: encode, lines 453-536.                                            *)
(***************************************************************************)
EncodeBegin ==
    /\ pc = "start"
    /\ argc >= 2 /\ argv.cmd \in EncodeCmds
    /\ SetSelfCheck
    /\ IF (argc # 4 /\ argc # 5) \/ Len(argv.nums) < 2
       THEN \* wrong number of arguments, or a latitude or longitude that is
            \* not numeric
            /\ Exit(NORMAL_ERROR)
            /\ UNCHANGED <<extraDigits, lat, lon, results, j, encCall>>
       ELSE /\ lat' = argv.nums[1] /\ lon' = argv.nums[2]
            /\ extraDigits' = EncodeExtraDigits(argv.cmd)
            /\ encCall' = EncCall(argv.nums[1], argv.nums[2], EncodeExtraDigits(argv.cmd))
            /\ \E res \in EncodeResults :
                 /\ results' = res
                 /\ j' = 0
                 /\ IF Len(res) <= 0
                    THEN Exit(NORMAL_ERROR)
                    ELSE pc' = "encode" /\ exitStatus' = exitStatus
    /\ UNCHANGED <<argv, useXYZ, random, i, k, gridVars, rngVars, statVars, rawPoint,
                   chk, out, countVars, summary>>

\* One pass of the loop of lines 526-535.
EncodeAlias ==
    /\ pc = "encode"
    /\ out' = [out EXCEPT !.plain = @ + 1]
    /\ LET e == results[j + 1]
           advance == /\ j' = j + 1
                      /\ IF j + 1 < Len(results)
                         THEN pc' = pc /\ exitStatus' = exitStatus
                         ELSE Exit(0)
       IN  IF selfCheckEnabled
           THEN \E d \in DecodeOutcomes :
                  LET o == DecodeCheckOutcome(d, lat, lon)
                  IN  /\ chk' = DecCheck(o, e.territory, e.mapcode, lat, lon, d)
                      /\ IF SelfCheckExits(o, selfCheckEnabled)
                         THEN Exit(INTERNAL_ERROR) /\ j' = j
                         ELSE advance
           ELSE chk' = NoCheck /\ advance
    /\ UNCHANGED <<argv, selfCheckEnabled, optVars, i, k, gridVars, rngVars, statVars,
                   rawPoint, lat, lon, results, countVars, encCall, summary>>


(***************************************************************************)
(* generateAndOutputMapcodes, lines 279-348, in steps: the entry up to the *)
(* header line (GenBegin, part of the caller's step), one step for each     *)
(* alias line and each of its two self checks, and the end of the call     *)
(* together with the caller's loop increment.                              *)
(***************************************************************************)
\* A faulty variant: an encode failure ends the run whatever iShowError is.
EncodeFailureExits_Always(nrResults, iShowError) == nrResults <= 0

\* Lines 308-313: exit(NORMAL_ERROR) when nothing was returned and iShowError.
EncodeFailureExits(nrResults, iShowError) == nrResults <= 0 /\ iShowError

\* Lines 284-324: wrap the point, encode it, exit or print the header.
GenBegin(rawLat, rawLon, iShowError) ==
    LET la == NormLat(rawLat)
        lo == NormLon(rawLon)
    IN  /\ rawPoint' = [lat |-> rawLat, lon |-> rawLon]
        /\ lat' = la /\ lon' = lo
        /\ encCall' = EncCall(la, lo, extraDigits)
        /\ submitted' = submitted + 1
        /\ \E res \in EncodeResults :
             /\ results' = res
             /\ j' = 0
             /\ nrEmpty' = IF Len(res) <= 0 THEN nrEmpty + 1 ELSE nrEmpty
             /\ IF EncodeFailureExits(Len(res), iShowError)
                THEN Exit(NORMAL_ERROR) /\ out' = out
                ELSE /\ out' = [out EXCEPT !.open = TRUE, !.hdr = Len(res),
                                           !.xyz = useXYZ, !.lines = 0,
                                           !.headers = @ + 1]
                     /\ pc' = IF Len(res) > 0 THEN "alias" ELSE "genend"
                     /\ exitStatus' = exitStatus

\* ++j of the loop of line 325.
AliasAdvance ==
    /\ j' = j + 1
    /\ pc' = IF j + 1 < Len(results) THEN "alias" ELSE "genend"
    /\ exitStatus' = exitStatus

\* Lines 326-334: print the alias line and, when self checking, check that the
\* point encodes to this alias.
GenAlias ==
    /\ pc = "alias"
    /\ out' = [out EXCEPT !.lines = @ + 1, !.aliases = @ + 1]
    /\ LET e == results[j + 1]
       IN  IF selfCheckEnabled
           THEN /\ encCall' = EncCall(LimitLat(lat), LimitLon(lon), extraDigits)
                /\ \E res \in EncodeResults :
                     \E o \in EncodeCheckOutcomes(res, e.territory, e.mapcode) :
                       /\ chk' = EncCheck(o, e.territory, e.mapcode, lat, lon, res)
                       /\ j' = j
                       /\ IF o = "crash"
                          THEN pc' = "crashed" /\ exitStatus' = exitStatus
                          ELSE IF SelfCheckExits(o, selfCheckEnabled)
                          THEN Exit(INTERNAL_ERROR)
                          ELSE pc' = "aliasdec" /\ exitStatus' = exitStatus
           ELSE /\ chk' = NoCheck
                /\ encCall' = encCall
                /\ AliasAdvance
    /\ UNCHANGED <<argv, selfCheckEnabled, optVars, i, k, gridVars, rngVars, statVars,
                   rawPoint, lat, lon, results, countVars, summary>>

\* Line 335: check that this alias decodes to the point.
GenAliasDecode ==
    /\ pc = "aliasdec"
    /\ LET e == results[j + 1]
       IN  \E d \in DecodeOutcomes :
             LET o == DecodeCheckOutcome(d, lat, lon)
             IN  /\ chk' = DecCheck(o, e.territory, e.mapcode, lat, lon, d)
                 /\ IF SelfCheckExits(o, selfCheckEnabled)
                    THEN Exit(INTERNAL_ERROR) /\ j' = j
                    ELSE AliasAdvance
    /\ UNCHANGED <<argv, selfCheckEnabled, optVars, i, k, gridVars, rngVars, statVars,
                   rawPoint, lat, lon, results, out, countVars, encCall, summary>>

\* outputStatistics, lines 365-373: the totals it prints.
Statistics(points, nrResults) == <<points, nrResults>>

\* Lines 339-347, then the rest of the caller's loop body and its ++i; after
\* the last point outputStatistics and return 0.
GenEnd ==
    /\ pc = "genend"
    /\ out' = [out EXCEPT !.open = FALSE, !.records = @ + 1]
    /\ largestNrOfResults' = IF Len(results) > largestNrOfResults
                             THEN Len(results) ELSE largestNrOfResults
    /\ totalNrOfResults' = totalNrOfResults + Len(results)
    /\ IF argv.cmd \in BoundaryCmds /\ k < 12
       THEN /\ k' = k + 1
            /\ pc' = "boundary"
            /\ UNCHANGED <<i, exitStatus, summary>>
       ELSE /\ k' = 0
            /\ i' = i + 1
            /\ IF i + 1 < totalNrOfPoints
               THEN /\ pc' = IF argv.cmd \in BoundaryCmds THEN "boundary" ELSE "grid"
                    /\ UNCHANGED <<exitStatus, summary>>
               ELSE /\ summary' = Statistics(totalNrOfPoints,
                                             totalNrOfResults + Len(results))
                    /\ Exit(0)
    /\ chk' = NoCheck
    /\ UNCHANGED <<argv, selfCheckEnabled, optVars, gridVars, rngVars, totalNrOfPoints,
                   pointVars, countVars, encCall>>

(***************************************************************************)
(* main: boundaries, lines 537-602.                                        *)
(***************************************************************************)
\* resetStatistics, lines 354-359.
ResetStatistics(nrOfPoints) ==
    /\ totalNrOfPoints' = nrOfPoints
    /\ largestNrOfResults' = 0

BoundaryBegin ==
    /\ pc = "start"
    /\ argc >= 2 /\ argv.cmd \in BoundaryCmds
    /\ SetSelfCheck
    /\ IF argc < 2 \/ argc > 3
       THEN /\ Exit(NORMAL_ERROR)
            /\ UNCHANGED <<optVars, statVars, summary>>
       ELSE LET digits == IF argc = 3 THEN argv.nums[1] ELSE extraDigits
            IN  /\ extraDigits' = digits
                /\ IF digits < 0 \/ digits > 8
                   THEN /\ Exit(NORMAL_ERROR)
                        /\ UNCHANGED <<useXYZ, random, statVars, summary>>
                   ELSE /\ useXYZ' = UseXYZ(argv.cmd)
                        /\ ResetStatistics(NR_BOUNDARY_RECS)
                        /\ UNCHANGED <<random, totalNrOfResults>>
                        /\ IF 0 < NR_BOUNDARY_RECS
                           THEN pc' = "boundary" /\ UNCHANGED <<exitStatus, summary>>
                           ELSE /\ summary' = Statistics(NR_BOUNDARY_RECS, totalNrOfResults)
                                /\ Exit(0)
    /\ i' = 0 /\ k' = 0
    /\ UNCHANGED <<argv, gridVars, rngVars, pointVars, chk, out, countVars, encCall>>

\* The k-th call of generateAndOutputMapcodes for record i, up to its header.
BoundaryProbe ==
    /\ pc = "boundary"
    /\ LET p == BoundaryProbes(boundaries(i))[k + 1]
       IN  GenBegin(p.lat, p.lon, FALSE)
    /\ chk' = NoCheck
    /\ UNCHANGED <<argv, selfCheckEnabled, optVars, i, k, gridVars, rngVars, statVars,
                   decoded, summary>>

(***************************************************************************)
(* main: grid and random, lines 603-680.                                   *)
(***************************************************************************)
GridRandomBegin ==
    /\ pc = "start"
    /\ argc >= 2 /\ argv.cmd \in GridRandomCmds
    /\ SetSelfCheck
    /\ i' = 0 /\ k' = 0
    /\ IF argc < 3 \/ argc > 5
       THEN /\ Exit(NORMAL_ERROR)
            /\ UNCHANGED <<optVars, gridVars, rngVars, statVars>>
       ELSE LET nrOfPoints == argv.nums[1]
                digits == IF argc >= 4 THEN argv.nums[2] ELSE extraDigits
                isRandom == IsRandomCmd(argv.cmd)
            IN  IF nrOfPoints < 1
                THEN /\ Exit(NORMAL_ERROR)
                     /\ UNCHANGED <<optVars, gridVars, rngVars, statVars>>
                ELSE /\ extraDigits' = digits
                     /\ IF digits < 0 \/ digits > 8
                        THEN /\ Exit(NORMAL_ERROR)
                             /\ UNCHANGED <<useXYZ, random, gridVars, rngVars, statVars>>
                        ELSE /\ random' = isRandom
                             /\ IF isRandom
                                THEN IF argc = 5
                                     THEN /\ rngState' = Srand(argv.nums[3])
                                          /\ seedSource' = "arg"
                                     ELSE /\ \E t \in ClockValues : rngState' = Srand(t)
                                          /\ seedSource' = "clock"
                                ELSE UNCHANGED rngVars
                             /\ useXYZ' = UseXYZ(argv.cmd)
                             /\ ResetStatistics(nrOfPoints)
                             /\ gridX' = 0 /\ gridY' = 0
                             /\ line' = Line(nrOfPoints)
                             /\ pc' = "grid"
                             /\ UNCHANGED <<exitStatus, unit, totalNrOfResults>>
    /\ UNCHANGED <<argv, pointVars, chk, out, countVars, encCall, summary>>

\* Lines 655-673: the next point of the grid or of the generator, and the call
\* of generateAndOutputMapcodes for it up to its header.
GridRandomPoint ==
    /\ pc = "grid"
    /\ IF random
       THEN LET r1 == Rand(rngState)
                r2 == Rand(r1)
            IN  /\ unit' = [n1 |-> r1, n2 |-> r2, d |-> RAND_MAX]
                /\ rngState' = r2
                /\ UNCHANGED <<gridX, gridY>>
       ELSE /\ unit' = [n1 |-> gridX, n2 |-> gridY, d |-> line]
            /\ IF gridX < line
               THEN gridX' = gridX + 1 /\ gridY' = gridY
               ELSE gridX' = 0 /\ gridY' = gridY + 1
            /\ rngState' = rngState
    /\ LET p == unitToLatLonDeg(unit'.n1, unit'.n2, unit'.d)
       IN  GenBegin(p.lat, p.lon, TRUE)
    /\ chk' = NoCheck
    /\ UNCHANGED <<argv, selfCheckEnabled, optVars, i, k, line, seedSource, statVars,
                   decoded, summary>>

Next ==
    \/ Usage
    \/ DecodeBegin
    \/ DecodeNext
    \/ EncodeBegin
    \/ EncodeAlias
    \/ BoundaryBegin
    \/ BoundaryProbe
    \/ GridRandomBegin
    \/ GridRandomPoint
    \/ GenAlias
    \/ GenAliasDecode
    \/ GenEnd

Spec == Init /\ [][Next]_vars


(***************************************************************************)
(* Properties.                                                             *)
(***************************************************************************)
GenerationCmds == BoundaryCmds \cup GridRandomCmds

\* C1: in debug mode a failure detected by either self check ends the process
\* at once with status INTERNAL_ERROR (2), in every command: the process is
\* in its exited state and no further step (alias, point, record) follows.
C1_StrictFailureIsFatal ==
    (selfCheckEnabled /\ chk.outcome = "fail")
        => (pc = "done" /\ exitStatus = INTERNAL_ERROR /\ ~ENABLED Next)

\* C1 witness: a random run in debug mode that a failed self check ended.
C1_Witness ==
    /\ selfCheckEnabled /\ chk.outcome = "fail"
    /\ random /\ argv.cmd \in GridRandomCmds
    /\ pc = "done" /\ exitStatus = INTERNAL_ERROR

\* The territory after its first dash, or <<>> (no such form) without a dash.
AfterDash(t) ==
    IF \E p \in 1..Len(t) : t[p] = "-"
    THEN LET p == CHOOSE q \in 1..Len(t) : t[q] = "-" /\ \A r \in 1..(q - 1) : t[r] # "-"
         IN  SubSeq(t, p + 1, Len(t))
    ELSE <<>>

PairMatches(e, territory, mapcode) ==
    /\ e.mapcode = mapcode
    /\ \/ e.territory = territory
       \/ (AfterDash(e.territory) # <<>> /\ AfterDash(e.territory) = territory)

\* C2: the encode-direction check succeeds exactly when the re-encode returned
\* at least one entry and some returned entry has the expected mapcode and a
\* territory equal to the expected one, as it is or after its first dash.
C2_EncodeCheckIffSomePairMatches ==
    chk.kind = "enc"
        => (chk.outcome = "ok"
              <=> /\ Len(chk.results) >= 1
                  /\ \E n \in 1..Len(chk.results) :
                       PairMatches(chk.results[n], chk.territory, chk.mapcode))

\* Longitude difference taken around the circle.
Circular(d) == IF d > 180 * Deg THEN 360 * Deg - d ELSE d

\* C3: the decode-direction check fails exactly when decode returned an error,
\* or the latitudes differ by more than 0.001 degree, or the longitudes differ
\* by more than 0.001 degree around the circle.
C3_DecodeCheckTolerance ==
    chk.kind = "dec"
        => (chk.outcome = "fail"
              <=> \/ chk.err # 0
                  \/ Abs(chk.foundLat - chk.lat) > DELTA
                  \/ Circular(Abs(chk.foundLon - chk.lon)) > DELTA)

\* C3 witness: a check that passed with the two longitudes on opposite sides
\* of the 180 meridian.
C3_Witness ==
    /\ chk.kind = "dec" /\ chk.outcome = "ok"
    /\ Abs(chk.foundLon - chk.lon) > 180 * Deg

\* C4: every record on stdout has a header with an alias count of at least 1,
\* and a closed record has exactly that many alias lines.
C4_RecordsHaveAliases ==
    out.headers > 0 => (out.hdr >= 1 /\ (~out.open => out.lines = out.hdr))

\* C5 as stated: without self checking, in each of the three generators a point
\* without aliases does not end the run with an error.
C5_EmptyToleratedEverywhere ==
    (~selfCheckEnabled /\ argv.cmd \in GenerationCmds /\ submitted > 0 /\ Len(results) = 0)
        => ~(pc = "done" /\ exitStatus # 0)

\* C5 amended: without self checking, a boundaries run that has started its
\* points always ends with all 13 * NR_BOUNDARY_RECS points processed, the
\* summary printed and status 0, whatever points had no aliases; in grid and
\* random runs a point without aliases ends the run at that point with
\* status NORMAL_ERROR (1) and no summary.
C5_EmptyToleratedInBoundariesOnly ==
    /\ (~selfCheckEnabled /\ argv.cmd \in BoundaryCmds /\ submitted > 0 /\ pc = "done")
           => (exitStatus = 0 /\ submitted = 13 * NR_BOUNDARY_RECS /\ summary # <<>>)
    /\ (~selfCheckEnabled /\ argv.cmd \in GridRandomCmds /\ submitted > 0
          /\ Len(results) = 0)
           => (pc = "done" /\ exitStatus = NORMAL_ERROR /\ summary = <<>>
                 /\ nrEmpty = 1)

\* C5 witness: a completed boundaries run in which points had no aliases.
C5_Witness ==
    /\ ~selfCheckEnabled /\ argv.cmd \in BoundaryCmds
    /\ pc = "done" /\ exitStatus = 0 /\ nrEmpty > 1 /\ summary # <<>>

\* C6 as stated: in decode mode without self checking, every mapcode of the
\* command line has been handed to the decoder when the run ends.
C6_DecodeContinuesAfterError ==
    (~selfCheckEnabled /\ argv.cmd \in DecodeCmds /\ argc >= 4 /\ pc = "done")
        => decoded = argc - 3

\* C6 amended: a mapcode that cannot be decoded ends the whole run with status
\* NORMAL_ERROR (1): the mapcodes before it were decoded and printed, it is
\* the last one handed to the decoder, and nothing follows.
C6_DecodeErrorEndsRun ==
    (argv.cmd \in DecodeCmds /\ decoded > out.plain)
        => /\ pc = "done" /\ exitStatus = NORMAL_ERROR
           /\ decoded = out.plain + 1
           /\ i = 2 + decoded
           /\ ~ENABLED Next

\* C6 witness: a decode error with a mapcode still left on the command line.
C6_Witness ==
    /\ argv.cmd \in DecodeCmds /\ decoded > out.plain
    /\ decoded < argc - 3

\* C7 as stated: the point handed to the codec has lat in [-90, 90] and lon
\* in (-180, 180].
C7_LonHalfOpen ==
    submitted > 0
        => /\ -90 * Deg <= lat /\ lat <= 90 * Deg
           /\ -180 * Deg < lon /\ lon <= 180 * Deg

\* C7 amended: the point handed to the codec has lat in [-90, 90] and lon in
\* the closed interval [-180, 180], and differs from the point passed in by
\* whole turns (360 degrees of longitude, 180 of latitude); a longitude of
\* exactly -180 is left as it is.
C7_WrappedIntoClosedRange ==
    submitted > 0
        => /\ -90 * Deg <= lat /\ lat <= 90 * Deg
           /\ -180 * Deg <= lon /\ lon <= 180 * Deg
           /\ (lon - rawPoint.lon) % (360 * Deg) = 0
           /\ (lat - rawPoint.lat) % (180 * Deg) = 0
           /\ (rawPoint.lon = -180 * Deg => lon = -180 * Deg)

\* C7 witness: a longitude below -180 that was wrapped.
C7_Witness ==
    /\ submitted > 0
    /\ rawPoint.lon < -180 * Deg
    /\ lon = rawPoint.lon + 360 * Deg

\* The corner of the box that call c (1..4) of the corners is for, and the
\* same corner moved by e microdegrees towards the inside of the box.
CornerMoved(mm, c, e) ==
    [lat |-> IF c \in {1, 2} THEN mm.miny + e ELSE mm.maxy - e,
     lon |-> IF c \in {1, 3} THEN mm.minx + e ELSE mm.maxx - e]

\* The point the claim gives for call n (0..12) of a record; call 0 is the
\* center probe, whose coordinates are not part of this statement.
ProbeAsClaimed(mm, n, p) ==
    IF n = 0 THEN TRUE
    ELSE IF n <= 4 THEN p = CornerMoved(mm, n, 0)
    ELSE IF n <= 8 THEN p = CornerMoved(mm, n - 4, 1)
    ELSE p = CornerMoved(mm, n - 8, -1)

C9_SeedZeroMeansClock ==
    (random /\ seedSource # "none")
        => (seedSource = "clock" <=> (argc < 5 \/ argv.nums[3] = 0))

\* C10: -rXYZ and --randomXYZ seed the generator and draw their points from it.
C10_RandomXYZIsRandom ==
    (argv.cmd \in {S_r \o S_XYZ, S_random \o S_XYZ}
       /\ pc \in {"grid", "alias", "aliasdec", "genend"})
        => (random /\ seedSource # "none")

\* C11: every call of the codec's encode operation, in every command and in
\* the re-encode of the self check after a decode, passes an extraDigits
\* value in 0..8.
C11_ExtraDigitsInRange ==
    encCall.made => encCall.extraDigits \in 0..8

\* C12: in boundaries mode the first point submitted for each record is the
\* center of its box, lat = (minLat + maxLat) / 2 and lon = (minLon + maxLon) / 2,
\* and so lies inside the box.
C12_FirstProbeIsCenter ==
    (argv.cmd \in BoundaryCmds /\ k = 0 /\ submitted = 13 * i + 1)
        => LET mm == boundaries(i)
           IN  /\ 2 * rawPoint.lat = mm.miny + mm.maxy
               /\ 2 * rawPoint.lon = mm.minx + mm.maxx
               /\ mm.miny <= rawPoint.lat /\ rawPoint.lat <= mm.maxy
               /\ mm.minx <= rawPoint.lon /\ rawPoint.lon <= mm.maxx

\* C13: in grid mode every pair (unit1, unit2) = (gridX / line, gridY / line)
\* passed to unitToLatLonDeg has 0 <= unit1 < 1 and 0 <= unit2 < 1, that is,
\* the counters it is computed from are in 0 .. line - 1.
C13_GridUnitsBelowOne ==
    (argv.cmd \in GridRandomCmds /\ ~random /\ submitted > 0)
        => /\ unit.d = line
           /\ unit.n1 \in 0..(line - 1)
           /\ unit.n2 \in 0..(line - 1)

\* C14: at the end of a completed boundaries, grid or random run the number of
\* points the statistics report is the number of points that were generated
\* and submitted to the codec, and the average they report (mapcodes over
\* points) is the number of aliases generated divided by that number.
C14_StatisticsCountSubmittedPoints ==
    summary # <<>>
        => /\ summary[1] = submitted
           /\ summary[2] * submitted = out.aliases * summary[1]

\* C15: in the encode-direction check the expected territory is compared with
\* the dash-stripped form of a returned territory only when the returned
\* territory has a dash: no check ever compares with an absent (NULL) string,
\* and every check ends by passing or by reporting a failure.
C15_NeverComparesWithNull ==
    chk.kind = "enc" => (~chk.nullCmp /\ chk.outcome \in {"ok", "fail"})

=============================================================================
